---- MODULE Spec2Model ----
(***************************************************************************)
(* Model of the ReplyQueue Durable Object of dmarc-email-worker            *)
(* (src/src/reply-queue.ts): a durable map of pending reply jobs keyed by  *)
(* "job:<reportId>" and the single Durable Object alarm that wakes the     *)
(* queue.  Times are epoch milliseconds.                                   *)
(***************************************************************************)
EXTENDS Integers, Sequences, FiniteSets, TLC

\* ------------------------------------------------------------------------
\* Program constants
\* ------------------------------------------------------------------------
MAX_ATTEMPTS == 5

\* 5 * 60 * 1000 in `now + 5 * 60 * 1000 * Math.pow(2, next - 1)`
BACKOFF_BASE_MS == 300000

\* ------------------------------------------------------------------------
\* Bounds of the model
\* ------------------------------------------------------------------------
\* The clock takes the values 0, TickMs, ..., MaxTick * TickMs.
MaxTick == 16

\* enqueue is called with sendAt in 0, TickMs, ..., MaxSendTick * TickMs.
MaxSendTick == 2

TickMs == BACKOFF_BASE_MS

\* reportIds seen by the queue (their order is the key order of storage.list)
ReportIds == {1, 2}

MessageIds == {1, 2}

\* getAlarm() returns null when no alarm is set; nextAlarm starts as null.
Null == -1

\* enqMin once the handler has run
Void == Null - 1

SendAts == {t * TickMs : t \in 0..MaxSendTick}

\* ReplyMessage values handed to enqueue (replyTo and subject ride along
\* with messageId: the queue never reads them).
Msgs == [reportId : ReportIds, messageId : MessageIds, sendAt : SendAts]

VARIABLES
  storage,   \* ctx.storage entries under prefix "job:": key -> PendingJob
  alarm,     \* ctx.storage alarm: a time or Null
  now,       \* Date.now()
  outbox,    \* messages handed to sendReply by the latest operation, in order
  failed,    \* reportIds whose sendReply rejected in the latest operation
  errlog,    \* reportIds written by console.error by the latest operation
  sends,     \* per reportId: sendReply calls since its latest enqueue
  enqMin,    \* smallest sendAt enqueued on a fresh queue; Void once the handler has run
  status,    \* "ok", or "threw" when the latest operation rejected
  rejected,  \* storage calls that rejected during the latest operation
  last,      \* the latest operation and its argument
  input,     \* the text, or the message and bindings, of the latest parser or worker call
  result,    \* what that call returned or did
  frames     \* the alarm() and enqueue() calls in progress: position and locals

\* the state of the ReplyQueue instance and what is observed of it
qvars == <<storage, alarm, now, outbox, failed, errlog, sends, enqMin, status, rejected, last>>

vars == <<storage, alarm, now, outbox, failed, errlog, sends, enqMin, status, rejected, last,
          input, result, frames>>

\* input and result while no parser or worker function has been called
NoCall == [call |-> "none"]

\* frames while every call runs to completion within one step
NoFrames == [alarm |-> [pc |-> "idle"], enqueue |-> [pc |-> "idle"]]

\* ------------------------------------------------------------------------
\* Helpers
\* ------------------------------------------------------------------------
\* mutant: the key is built from the messageId
JobKey_ByMessageId(msg) == <<"job:", msg.messageId>>

\* const key = `job:${msg.reportId}`
JobKey(msg) == <<"job:", msg.reportId>>

KeyId(key) == key[2]

\* Map.set / storage.put: insert or overwrite the entry of a key
Put(st, key, job) == [k \in DOMAIN st \cup {key} |-> IF k = key THEN job ELSE st[k]]

\* storage.delete
Delete(st, key) == [k \in DOMAIN st \ {key} |-> st[k]]

SetMin(S) == CHOOSE x \in S : \A y \in S : x <= y

\* mutant: the comparison is reversed, the latest candidate wins
Earlier_Reversed(cur, t) == IF cur = Null \/ t > cur THEN t ELSE cur

\* if (nextAlarm === null || t < nextAlarm) nextAlarm = t
Earlier(cur, t) == IF cur = Null \/ t < cur THEN t ELSE cur

\* storage.list returns the entries sorted by key
RECURSIVE SortKeys(_)
SortKeys(S) ==
  IF S = {} THEN <<>>
  ELSE LET k == CHOOSE x \in S : \A y \in S : KeyId(x) <= KeyId(y)
       IN <<k>> \o SortKeys(S \ {k})

\* Math.pow(2, n)
RECURSIVE Pow2(_)
Pow2(n) == IF n <= 0 THEN 1 ELSE 2 * Pow2(n - 1)

\* mutant: the exponent is next instead of next - 1
RetryAt_ExponentNext(t, next) == t + BACKOFF_BASE_MS * Pow2(next)

\* const retryAt = now + 5 * 60 * 1000 * Math.pow(2, next - 1)
RetryAt(t, next) == t + BACKOFF_BASE_MS * Pow2(next - 1)

\* Storage operations that reject in a run: the list call, the delete that
\* follows a send (per key), the put/delete of the catch block (per key),
\* the final setAlarm.
NoFaults == [list |-> FALSE, del |-> {}, catch |-> {}, setAlarm |-> FALSE]

\* mutant: the drop test is next > MAX_ATTEMPTS
CatchBlock_DropsLate(h, key, job, t, f) ==
  LET next == job.attempts + 1 IN
  IF next > MAX_ATTEMPTS
  THEN LET logged == [h EXCEPT !.errlog = @ \cup {job.msg.reportId}] IN
       IF key \in f.catch THEN [logged EXCEPT !.status = "threw", !.rejected = @ \cup {"delete"}]
       ELSE [logged EXCEPT !.storage = Delete(@, key)]
  ELSE LET retryAt == RetryAt(t, next)
           updated == [msg |-> [job.msg EXCEPT !.sendAt = retryAt], attempts |-> next]
       IN IF key \in f.catch
          THEN [h EXCEPT !.status = "threw", !.rejected = @ \cup {"put"}]
          ELSE [h EXCEPT !.storage = Put(@, key, updated),
                         !.nextAlarm = Earlier(@, retryAt)]

\* the body of catch (e) { ... } for one entry
CatchBlock(h, key, job, t, f) ==
  LET next == job.attempts + 1 IN
  IF next >= MAX_ATTEMPTS
  THEN LET logged == [h EXCEPT !.errlog = @ \cup {job.msg.reportId}] IN
       IF key \in f.catch THEN [logged EXCEPT !.status = "threw", !.rejected = @ \cup {"delete"}]
       ELSE [logged EXCEPT !.storage = Delete(@, key)]
  ELSE LET retryAt == RetryAt(t, next)
           updated == [msg |-> [job.msg EXCEPT !.sendAt = retryAt], attempts |-> next]
       IN IF key \in f.catch
          THEN [h EXCEPT !.status = "threw", !.rejected = @ \cup {"put"}]
          ELSE [h EXCEPT !.storage = Put(@, key, updated),
                         !.nextAlarm = Earlier(@, retryAt)]

\* mutant: the delete after a successful send is missing
ProcessEntry_KeepsSent(h, key, job, t, ok, f) ==
  IF h.status = "threw" THEN h
  ELSE IF job.msg.sendAt > t
  THEN [h EXCEPT !.nextAlarm = Earlier(@, job.msg.sendAt)]
  ELSE LET called == [h EXCEPT !.outbox = Append(@, job.msg),
                               !.sends[job.msg.reportId] = @ + 1]
       IN IF ok[key]
          THEN IF key \in f.del
               THEN CatchBlock([called EXCEPT !.rejected = @ \cup {"delete"}],
                               key, job, t, f)
               ELSE called
          ELSE CatchBlock([called EXCEPT !.failed = @ \cup {job.msg.reportId}],
                          key, job, t, f)

\* mutant: the due test is missing, every listed job is sent
ProcessEntry_SendsAll(h, key, job, t, ok, f) ==
  IF h.status = "threw" THEN h
  ELSE IF FALSE
  THEN [h EXCEPT !.nextAlarm = Earlier(@, job.msg.sendAt)]
  ELSE LET called == [h EXCEPT !.outbox = Append(@, job.msg),
                               !.sends[job.msg.reportId] = @ + 1]
       IN IF (key \in DOMAIN ok => ok[key])
          THEN IF key \in f.del
               THEN CatchBlock([called EXCEPT !.rejected = @ \cup {"delete"}],
                               key, job, t, f)
               ELSE [called EXCEPT !.storage = Delete(@, key)]
          ELSE CatchBlock([called EXCEPT !.failed = @ \cup {job.msg.reportId}],
                          key, job, t, f)

\* mutant: a job that is not due is skipped without tracking its sendAt
ProcessEntry_NoTrack(h, key, job, t, ok, f) ==
  IF h.status = "threw" THEN h
  ELSE IF job.msg.sendAt > t
  THEN h
  ELSE LET called == [h EXCEPT !.outbox = Append(@, job.msg),
                               !.sends[job.msg.reportId] = @ + 1]
       IN IF ok[key]
          THEN IF key \in f.del
               THEN CatchBlock([called EXCEPT !.rejected = @ \cup {"delete"}],
                               key, job, t, f)
               ELSE [called EXCEPT !.storage = Delete(@, key)]
          ELSE CatchBlock([called EXCEPT !.failed = @ \cup {job.msg.reportId}],
                          key, job, t, f)

\* one iteration of the loop over allEntries
ProcessEntry(h, key, job, t, ok, f) ==
  IF h.status = "threw" THEN h
  ELSE IF job.msg.sendAt > t
  THEN [h EXCEPT !.nextAlarm = Earlier(@, job.msg.sendAt)]
  ELSE LET called == [h EXCEPT !.outbox = Append(@, job.msg),
                               !.sends[job.msg.reportId] = @ + 1]
       IN IF ok[key]
          THEN IF key \in f.del
               THEN CatchBlock([called EXCEPT !.rejected = @ \cup {"delete"}],
                               key, job, t, f)
               ELSE [called EXCEPT !.storage = Delete(@, key)]
          ELSE CatchBlock([called EXCEPT !.failed = @ \cup {job.msg.reportId}],
                          key, job, t, f)

\* mutant: the loop ends at the first job whose send fails
RECURSIVE ProcessEntries_StopsAtFailure(_, _, _, _, _, _)
ProcessEntries_StopsAtFailure(h, keys, entries, t, ok, f) ==
  IF keys = <<>> THEN h
  ELSE LET h1 == ProcessEntry(h, Head(keys), entries[Head(keys)], t, ok, f) IN
       IF h1.failed # h.failed THEN h1
       ELSE ProcessEntries_StopsAtFailure(h1, Tail(keys), entries, t, ok, f)

\* for (const [key, job] of allEntries) { ... }
RECURSIVE ProcessEntries(_, _, _, _, _, _)
ProcessEntries(h, keys, entries, t, ok, f) ==
  IF keys = <<>> THEN h
  ELSE ProcessEntries(ProcessEntry(h, Head(keys), entries[Head(keys)], t, ok, f),
                      Tail(keys), entries, t, ok, f)

\* async alarm(): the handler body, from a queue state to the state it leaves
AlarmHandler(st, al, cnt, t, ok, f) ==
  LET h0 == [storage |-> st, alarm |-> al, nextAlarm |-> Null, outbox |-> <<>>,
             failed |-> {}, errlog |-> {}, sends |-> cnt, status |-> "ok",
             rejected |-> {}]
  IN IF f.list THEN [h0 EXCEPT !.status = "threw", !.rejected = {"list"}]
     ELSE LET h == ProcessEntries(h0, SortKeys(DOMAIN st), st, t, ok, f) IN
          IF h.status = "threw" \/ h.nextAlarm = Null THEN h
          ELSE IF f.setAlarm
          THEN [h EXCEPT !.status = "threw", !.rejected = @ \cup {"setAlarm"}]
          ELSE [h EXCEPT !.alarm = h.nextAlarm]

\* keys of the jobs the handler sends at time t
DueKeys(st, t) == {k \in DOMAIN st : st[k].msg.sendAt <= t}

SendOutcomes(st, t) == [DueKeys(st, t) -> BOOLEAN]

\* ------------------------------------------------------------------------
\* Initial state: a fresh Durable Object
\* ------------------------------------------------------------------------
Init ==
  /\ storage = <<>>
  /\ alarm = Null
  /\ now = 0
  /\ outbox = <<>>
  /\ failed = {}
  /\ errlog = {}
  /\ sends = [r \in ReportIds |-> 0]
  /\ enqMin = Null
  /\ status = "ok"
  /\ rejected = {}
  /\ last = [op |-> "init"]
  /\ input = NoCall
  /\ result = NoCall
  /\ frames = NoFrames

\* ------------------------------------------------------------------------
\* Operations
\* ------------------------------------------------------------------------
\* async enqueue(msg), its effect on the queue state; fault names the
\* storage call that rejects, if any
EnqueueQueue(msg, fault) ==
  LET key == JobKey(msg)
      job == [msg |-> msg, attempts |-> 0]
  IN /\ storage' = IF fault = "put" THEN storage ELSE Put(storage, key, job)
     /\ alarm' = IF fault = "none" /\ (alarm = Null \/ msg.sendAt < alarm)
                 THEN msg.sendAt ELSE alarm
     /\ sends' = IF fault = "put" THEN sends ELSE [sends EXCEPT ![msg.reportId] = 0]
     /\ status' = IF fault = "none" \/ (fault = "setAlarm" /\ ~(alarm = Null \/ msg.sendAt < alarm))
                  THEN "ok" ELSE "threw"
     /\ rejected' = IF fault = "none" \/ (fault = "setAlarm" /\ ~(alarm = Null \/ msg.sendAt < alarm))
                    THEN {} ELSE {fault}
     /\ enqMin' = IF enqMin = Void \/ fault # "none" THEN Void
                  ELSE Earlier(enqMin, msg.sendAt)
     /\ outbox' = <<>>
     /\ failed' = {}
     /\ errlog' = {}
     /\ last' = [op |-> "enqueue", msg |-> msg, replaced |-> key \in DOMAIN storage]
     /\ UNCHANGED <<now, frames>>

\* mutant: setAlarm(msg.sendAt) is called whatever the current alarm
Enqueue_AlwaysSets(msg, fault) ==
  LET key == JobKey(msg)
      job == [msg |-> msg, attempts |-> 0]
  IN /\ storage' = IF fault = "put" THEN storage ELSE Put(storage, key, job)
     /\ alarm' = IF fault = "none" /\ (alarm = Null \/ TRUE)
                 THEN msg.sendAt ELSE alarm
     /\ sends' = IF fault = "put" THEN sends ELSE [sends EXCEPT ![msg.reportId] = 0]
     /\ status' = IF fault = "none" \/ (fault = "setAlarm" /\ ~(alarm = Null \/ msg.sendAt < alarm))
                  THEN "ok" ELSE "threw"
     /\ rejected' = IF fault = "none" \/ (fault = "setAlarm" /\ ~(alarm = Null \/ msg.sendAt < alarm))
                    THEN {} ELSE {fault}
     /\ enqMin' = IF enqMin = Void \/ fault # "none" THEN Void
                  ELSE Earlier(enqMin, msg.sendAt)
     /\ outbox' = <<>>
     /\ failed' = {}
     /\ errlog' = {}
     /\ last' = [op |-> "enqueue", msg |-> msg, replaced |-> key \in DOMAIN storage]
     /\ UNCHANGED <<now, input, result, frames>>

\* async enqueue(msg)
Enqueue(msg, fault) == EnqueueQueue(msg, fault) /\ UNCHANGED <<input, result>>

\* the handler's effect on the queue state
HandledQueue(h, how) ==
  /\ last' = [op |-> how]
  /\ failed' = h.failed
  /\ storage' = h.storage
  /\ alarm' = h.alarm
  /\ outbox' = h.outbox
  /\ errlog' = h.errlog
  /\ sends' = h.sends
  /\ status' = h.status
  /\ rejected' = h.rejected
  /\ enqMin' = Void
  /\ UNCHANGED <<now, frames>>

Handled(h, how) == HandledQueue(h, how) /\ UNCHANGED <<input, result>>

\* The runtime fires the alarm: it is due, the runtime clears it and calls
\* alarm().  A run that rejects is retried by the runtime: the alarm stays.
AlarmFire(ok, f) ==
  /\ alarm # Null
  /\ alarm <= now
  /\ \E h \in {AlarmHandler(storage, Null, sends, now, ok, f)} :
       Handled(IF h.status = "threw" THEN [h EXCEPT !.alarm = alarm] ELSE h, "fire")

\* alarm() called directly on the instance (runInDurableObject): the
\* recorded alarm is not cleared first.
AlarmDirect(ok, f) ==
  Handled(AlarmHandler(storage, alarm, sends, now, ok, f), "direct")

\* Date.now() advances
Advance ==
  /\ now' = now + TickMs
  /\ outbox' = <<>>
  /\ failed' = {}
  /\ errlog' = {}
  /\ status' = "ok"
  /\ rejected' = {}
  /\ last' = [op |-> "tick"]
  /\ UNCHANGED <<storage, alarm, sends, enqMin, input, result, frames>>

\* the clock of the model stops at MaxTick * TickMs
Tick == now < MaxTick * TickMs /\ Advance

EnqueueOp == \E msg \in Msgs : Enqueue(msg, "none")

AlarmFireOp == \E ok \in SendOutcomes(storage, now) : AlarmFire(ok, NoFaults)

AlarmDirectOp == \E ok \in SendOutcomes(storage, now) : AlarmDirect(ok, NoFaults)

Next == EnqueueOp \/ AlarmFireOp \/ AlarmDirectOp \/ Tick

Spec == Init /\ [][Next]_vars

\* ------------------------------------------------------------------------
\* A fresh queue that only receives enqueues, for three reportIds
\* ------------------------------------------------------------------------
FreshIds == {1, 2, 3}

FreshMsgs == [reportId : FreshIds, messageId : {1}, sendAt : SendAts]

InitFresh ==
  /\ storage = <<>>
  /\ alarm = Null
  /\ now = 0
  /\ outbox = <<>>
  /\ failed = {}
  /\ errlog = {}
  /\ sends = [r \in FreshIds |-> 0]
  /\ enqMin = Null
  /\ status = "ok"
  /\ rejected = {}
  /\ last = [op |-> "init"]
  /\ input = NoCall
  /\ result = NoCall
  /\ frames = NoFrames

EnqueueFresh == \E msg \in FreshMsgs : Enqueue(msg, "none")

SpecFresh == InitFresh /\ [][EnqueueFresh]_vars

\* ------------------------------------------------------------------------
\* The queue on a storage whose calls may reject
\* ------------------------------------------------------------------------
\* the clock of this specification stops at MaxFaultTick * TickMs
MaxFaultTick == 1

\* a handler run of this specification starts with fewer sends per reportId
MaxFaultSends == 2

FaultyMsgs == [reportId : ReportIds, messageId : {1}, sendAt : {0, TickMs}]

EnqueueFaults == {"none", "put", "getAlarm", "setAlarm"}

HandlerFaults(st) ==
  [list : BOOLEAN, del : SUBSET DOMAIN st, catch : SUBSET DOMAIN st, setAlarm : BOOLEAN]

EnqueueFaulty == \E msg \in FaultyMsgs : \E fault \in EnqueueFaults : Enqueue(msg, fault)

AlarmFireFaulty ==
  /\ \A r \in ReportIds : sends[r] < MaxFaultSends
  /\ \E ok \in SendOutcomes(storage, now) : \E f \in HandlerFaults(storage) : AlarmFire(ok, f)

AlarmDirectFaulty ==
  /\ \A r \in ReportIds : sends[r] < MaxFaultSends
  /\ \E ok \in SendOutcomes(storage, now) : \E f \in HandlerFaults(storage) : AlarmDirect(ok, f)

TickFaulty == now < MaxFaultTick * TickMs /\ Tick

NextFaulty == EnqueueFaulty \/ AlarmFireFaulty \/ AlarmDirectFaulty \/ TickFaulty

SpecFaulty == Init /\ [][NextFaulty]_vars

\* ------------------------------------------------------------------------
\* The deployed queue: alarm() is only ever called by the runtime
\* ------------------------------------------------------------------------
NextRuntime == EnqueueOp \/ AlarmFireOp \/ Tick

SpecRuntime == Init /\ [][NextRuntime]_vars

\* ------------------------------------------------------------------------
\* The deployed queue with time that advances and an alarm that the runtime
\* fires as soon as it is due
\* ------------------------------------------------------------------------
\* enqueue is called until the clock reads MaxLiveTick * TickMs, with sendAt
\* up to that time
MaxLiveTick == 1

\* the clock runs until the last retry of the last enqueued job is due:
\* the backoffs of one job add up to 5 min * (2^(MAX_ATTEMPTS - 1) - 1)
LiveEnd == MaxLiveTick + Pow2(MAX_ATTEMPTS - 1) - 1

LiveMsgs == [reportId : ReportIds, messageId : MessageIds,
             sendAt : {t * TickMs : t \in 0..MaxLiveTick}]

AlarmDue == alarm # Null /\ alarm <= now

EnqueueLive ==
  /\ now <= MaxLiveTick * TickMs
  /\ \E msg \in LiveMsgs : Enqueue(msg, "none")

\* the clock does not pass a due alarm: the runtime fires it first
TickLive == ~AlarmDue /\ now < LiveEnd * TickMs /\ Advance

NextLive == EnqueueLive \/ AlarmFireOp \/ TickLive

\* The runtime runs a due alarm (weak fairness: a due alarm stays due until
\* it fires); time advances however often enqueues and alarms occur (strong
\* fairness: every enqueue of a due job suspends the clock for one run).
SpecLive ==
  /\ Init /\ [][NextLive]_vars
  /\ WF_vars(AlarmFireOp)
  /\ SF_vars(TickLive)

\* ------------------------------------------------------------------------
\* The deployed queue at the granularity of its awaits
\* ------------------------------------------------------------------------
\* A Durable Object runs one JavaScript thread.  While a call awaits a
\* storage operation no other event is delivered to the object; while
\* alarm() awaits sendReply (env.EMAIL.send, an external call) the object
\* accepts enqueue calls.  The runtime runs one alarm() at a time and clears
\* the alarm before it calls the handler.

\* the clock of this specification stops at MaxStepTick * TickMs
MaxStepTick == 1

\* a handler run of this specification starts with fewer sends per reportId
MaxStepSends == 2

StepMsgs == [reportId : ReportIds, messageId : MessageIds,
             sendAt : {t * TickMs : t \in 0..MaxStepTick}]

\* the loop over allEntries from the entry keys[1] up to the next entry that
\* is due, whose sendReply call is the next await with another call's turn
RECURSIVE SkipNotDue(_, _, _, _)
SkipNotDue(h, keys, entries, t) ==
  IF keys = <<>> \/ entries[Head(keys)].msg.sendAt <= t
  THEN [h |-> h, keys |-> keys]
  ELSE SkipNotDue(ProcessEntry(h, Head(keys), entries[Head(keys)], t, <<>>, NoFaults),
                  Tail(keys), entries, t)

\* if (nextAlarm !== null) { await this.ctx.storage.setAlarm(nextAlarm) }
FinalSetAlarm(h) ==
  IF h.nextAlarm = Null THEN h ELSE [h EXCEPT !.alarm = h.nextAlarm]

\* the handler's locals and the queue state as one record
HandlerState(al, next, box, fl, el) ==
  [storage |-> storage, alarm |-> al, nextAlarm |-> next, outbox |-> box,
   failed |-> fl, errlog |-> el, sends |-> sends, status |-> "ok", rejected |-> {}]

\* alarm() runs from h0 at entry keys0[1] to its next sendReply call, which
\* settles later or never, or to its end
Resume(h0, keys0, entries, t, raced, op) ==
  \E r \in {SkipNotDue(h0, keys0, entries, t)} :
    \E h \in {IF r.keys = <<>> THEN FinalSetAlarm(r.h) ELSE r.h} :
      /\ storage' = h.storage
      /\ alarm' = h.alarm
      /\ outbox' = h.outbox
      /\ failed' = h.failed
      /\ errlog' = h.errlog
      /\ sends' = h.sends
      /\ IF r.keys = <<>>
         THEN frames' = [frames EXCEPT !.alarm = [pc |-> "idle"]]
         ELSE \E settles \in BOOLEAN :
                frames' = [frames EXCEPT !.alarm =
                             [pc |-> "sending", keys |-> r.keys, entries |-> entries,
                              t |-> t, nextAlarm |-> h.nextAlarm, raced |-> raced,
                              settles |-> settles]]
      /\ last' = [op |-> op]
      /\ status' = "ok"
      /\ rejected' = {}
      /\ enqMin' = Void
      /\ UNCHANGED <<now, input, result>>

\* the runtime fires the alarm: list, Date.now(), the loop up to the first
\* sendReply call
AlarmStart ==
  /\ frames.alarm.pc = "idle"
  /\ frames.enqueue.pc = "idle"
  /\ alarm # Null /\ alarm <= now
  /\ \A r \in ReportIds : sends[r] < MaxStepSends
  /\ Resume(HandlerState(Null, Null, <<>>, {}, {}), SortKeys(DOMAIN storage),
            storage, now, <<>>, "alarm.start")

\* the awaited sendReply settles: delete or catch block of the entry, then
\* the loop up to the next sendReply call or the final setAlarm
SendSettle(ok) ==
  /\ frames.alarm.pc = "sending"
  /\ frames.alarm.settles
  /\ frames.enqueue.pc = "idle"
  /\ LET f == frames.alarm
         key == Head(f.keys)
     IN Resume(ProcessEntry(HandlerState(alarm, f.nextAlarm, outbox, failed, errlog),
                            key, f.entries[key], f.t, [k \in {key} |-> ok], NoFaults),
               Tail(f.keys), f.entries, f.t, f.raced,
               IF ok THEN "send.resolved" ELSE "send.rejected")

SendSettleOp == \E ok \in BOOLEAN : SendSettle(ok)

\* enqueue(msg) up to its first await: storage.put(key, job)
EnqueuePut(msg) ==
  /\ frames.enqueue.pc = "idle"
  /\ storage' = Put(storage, JobKey(msg), [msg |-> msg, attempts |-> 0])
  /\ sends' = [sends EXCEPT ![msg.reportId] = 0]
  /\ frames' = [frames EXCEPT
                  !.enqueue = [pc |-> "put", msg |-> msg],
                  !.alarm = IF @.pc = "sending"
                            THEN [@ EXCEPT !.raced = Put(@, JobKey(msg), msg)]
                            ELSE @]
  /\ last' = [op |-> "enqueue.put", msg |-> msg]
  /\ UNCHANGED <<alarm, now, outbox, failed, errlog, enqMin, status, rejected,
                 input, result>>

EnqueuePutOp == \E msg \in StepMsgs : EnqueuePut(msg)

\* const currentAlarm = await this.ctx.storage.getAlarm()
EnqueueGetAlarm ==
  /\ frames.enqueue.pc = "put"
  /\ frames' = [frames EXCEPT !.enqueue = [pc |-> "getAlarm", msg |-> @.msg,
                                           currentAlarm |-> alarm]]
  /\ last' = [op |-> "enqueue.getAlarm", msg |-> frames.enqueue.msg]
  /\ UNCHANGED <<storage, alarm, now, outbox, failed, errlog, sends, enqMin,
                 status, rejected, input, result>>

\* if (currentAlarm === null || msg.sendAt < currentAlarm) setAlarm(msg.sendAt)
EnqueueSetAlarm ==
  /\ frames.enqueue.pc = "getAlarm"
  /\ LET f == frames.enqueue
     IN alarm' = IF f.currentAlarm = Null \/ f.msg.sendAt < f.currentAlarm
                 THEN f.msg.sendAt ELSE alarm
  /\ frames' = [frames EXCEPT !.enqueue = [pc |-> "idle"]]
  /\ last' = [op |-> "enqueue.setAlarm", msg |-> frames.enqueue.msg]
  /\ UNCHANGED <<storage, now, outbox, failed, errlog, sends, enqMin,
                 status, rejected, input, result>>

\* Date.now() advances, whatever the calls in progress
TickSteps ==
  /\ now < MaxStepTick * TickMs
  /\ now' = now + TickMs
  /\ last' = [op |-> "tick"]
  /\ UNCHANGED <<storage, alarm, outbox, failed, errlog, sends, enqMin,
                 status, rejected, input, result, frames>>

NextSteps ==
  \/ AlarmStart
  \/ SendSettleOp
  \/ EnqueuePutOp
  \/ EnqueueGetAlarm
  \/ EnqueueSetAlarm
  \/ TickSteps

SpecSteps == Init /\ [][NextSteps]_vars

\* Every step of the object's own code is taken once it can be (weak
\* fairness); a sendReply that settles is delivered to the handler however
\* many enqueue calls arrive in between (strong fairness: each enqueue
\* holds the delivery back during its storage calls).  Nothing obliges the
\* runtime to deliver enqueue calls or the clock to advance.
SpecStepsFair ==
  /\ SpecSteps
  /\ WF_vars(AlarmStart)
  /\ SF_vars(SendSettleOp)
  /\ WF_vars(EnqueueGetAlarm)
  /\ WF_vars(EnqueueSetAlarm)

\* ------------------------------------------------------------------------
\* The queue on a storage whose calls may reject, with the record of the
\* reportIds whose sendReply has resolved since their latest enqueue
\* ------------------------------------------------------------------------
InitDelivery ==
  /\ storage = <<>> /\ alarm = Null /\ now = 0
  /\ outbox = <<>> /\ failed = {} /\ errlog = {}
  /\ sends = [r \in ReportIds |-> 0]
  /\ enqMin = Null /\ status = "ok" /\ rejected = {}
  /\ last = [op |-> "init"]
  /\ input = NoCall
  /\ result = [delivered |-> {}]
  /\ frames = NoFrames

\* reportIds whose sendReply resolved in a handler run that left h
DeliveredBy(h) == {h.outbox[i].reportId : i \in 1..Len(h.outbox)} \ h.failed

\* enqueue(msg): a stored job is a new job for its reportId
EnqueueDelivery ==
  \E msg \in FaultyMsgs : \E fault \in EnqueueFaults :
    /\ EnqueueQueue(msg, fault)
    /\ result' = [delivered |-> IF fault = "put" THEN result.delivered
                                 ELSE result.delivered \ {msg.reportId}]
    /\ UNCHANGED input

\* alarm(), fired by the runtime or called directly
AlarmDelivery(how) ==
  \E ok \in SendOutcomes(storage, now) : \E f \in HandlerFaults(storage) :
    LET h == AlarmHandler(storage, IF how = "fire" THEN Null ELSE alarm,
                          sends, now, ok, f)
    IN /\ HandledQueue(IF how = "fire" /\ h.status = "threw"
                       THEN [h EXCEPT !.alarm = alarm] ELSE h, how)
       /\ result' = [delivered |-> result.delivered \cup DeliveredBy(h)]
       /\ UNCHANGED input

AlarmFireDelivery ==
  /\ \A r \in ReportIds : sends[r] < MaxFaultSends
  /\ alarm # Null /\ alarm <= now
  /\ AlarmDelivery("fire")

AlarmDirectDelivery ==
  /\ \A r \in ReportIds : sends[r] < MaxFaultSends
  /\ AlarmDelivery("direct")

NextDelivery == EnqueueDelivery \/ AlarmFireDelivery \/ AlarmDirectDelivery \/ TickFaulty

SpecDelivery == InitDelivery /\ [][NextDelivery]_vars

\* ------------------------------------------------------------------------
\* JavaScript values as the parsers see them
\* ------------------------------------------------------------------------
Undefined == [t |-> "undefined"]

JsNull == [t |-> "null"]

JsStr(s) == [t |-> "string", s |-> s]

JsNum(n) == [t |-> "number", n |-> n]

\* the number NaN
NaN == [t |-> "number", nan |-> TRUE]

JsObj(f) == [t |-> "object", f |-> f]

JsArr(e) == [t |-> "array", e |-> e]

IsNaN(v) == v.t = "number" /\ "nan" \in DOMAIN v

\* typeof v === "object" && v !== null (arrays included)
IsObjectType(v) == v.t \in {"object", "array"}

\* key in v, for a name that is no array index
HasKey(v, key) == v.t = "object" /\ key \in DOMAIN v.f

\* v.key and v?.key for a name that is no array index or built-in property
Get(v, key) == IF HasKey(v, key) THEN v.f[key] ELSE Undefined

Coalesce_NoDefault(a, b) == a

\* a ?? b
Coalesce(a, b) == IF a.t \in {"undefined", "null"} THEN b ELSE a

\* !v
Falsy(v) ==
  \/ v.t \in {"undefined", "null"}
  \/ v.t = "string" /\ v.s = ""
  \/ v.t = "number" /\ (IsNaN(v) \/ v.n = 0)

\* the texts of the model whose parseInt is a number: leading digits count
LeadingInt == [x \in {"0", "12abc"} |-> IF x = "0" THEN 0 ELSE 12]

\* parseInt(v): a string by its leading digits, a number by its integer
\* part, anything else through String(v)
RECURSIVE ParseInt(_)
ParseInt(v) ==
  IF v.t = "string" THEN (IF v.s \in DOMAIN LeadingInt THEN JsNum(LeadingInt[v.s]) ELSE NaN)
  ELSE IF v.t = "number" THEN v
  ELSE IF v.t = "array" /\ v.e # <<>> THEN ParseInt(v.e[1])
  ELSE NaN

\* String.prototype.toLowerCase on the texts of the model
ToLowerCase(s) ==
  IF s = "PASS" THEN "pass" ELSE IF s = "Fail" THEN "fail"
  ELSE IF s = "TEMPERROR" THEN "temperror" ELSE s

\* ------------------------------------------------------------------------
\* XML text and fast-xml-parser
\* ------------------------------------------------------------------------
\* An XML text is a sequence of top-level elements; an element has a tag
\* and either child elements or character data.
Leaf(tag, text) == [tag |-> tag, text |-> text, kids |-> <<>>]

Node(tag, kids) == [tag |-> tag, text |-> "", kids |-> kids]

\* character data that the parser turns into a number (parseTagValue)
NumericText == [x \in {"0", "1000", "2000"} |->
                  IF x = "0" THEN 0 ELSE IF x = "1000" THEN 1000 ELSE 2000]

TextValue(s) == IF s \in DOMAIN NumericText THEN JsNum(NumericText[s]) ELSE JsStr(s)

RECURSIVE NodeValue(_), ChildValues(_, _)
\* the values of the children with one tag, in document order
ChildValues(kids, tag) ==
  IF kids = <<>> THEN <<>>
  ELSE IF Head(kids).tag = tag
       THEN <<NodeValue(Head(kids))>> \o ChildValues(Tail(kids), tag)
       ELSE ChildValues(Tail(kids), tag)

\* the object of a list of sibling elements: one key per tag, a repeated
\* tag becomes an array
SiblingsObject(kids) ==
  JsObj([tag \in {kids[i].tag : i \in 1..Len(kids)} |->
           LET vals == ChildValues(kids, tag)
           IN IF Len(vals) = 1 THEN vals[1] ELSE JsArr(vals)])

\* the value of one element: its children's object, or its text ("" when empty)
NodeValue(el) ==
  IF el.kids = <<>> THEN TextValue(el.text) ELSE SiblingsObject(el.kids)

\* parser.parse(xml)
ParseXML(xml) == SiblingsObject(xml)

\* ------------------------------------------------------------------------
\* parseDMARCReportFromString
\* ------------------------------------------------------------------------
IsXMLDMARCFeedback_AnyWrapper(obj) ==
  IF ~IsObjectType(obj) THEN FALSE
  ELSE IF HasKey(obj, "feedback") THEN TRUE
  ELSE HasKey(obj, "report_metadata") \/ HasKey(obj, "policy_published")

IsXMLDMARCFeedback(obj) ==
  IF ~IsObjectType(obj) THEN FALSE
  ELSE IF HasKey(obj, "feedback") /\ IsObjectType(Get(obj, "feedback")) THEN TRUE
  ELSE HasKey(obj, "report_metadata") \/ HasKey(obj, "policy_published")

\* !x ? [] : Array.isArray(x) ? x : [x]
RecordsArray(records) ==
  IF Falsy(records) THEN <<>>
  ELSE IF records.t = "array" THEN records.e
  ELSE <<records>>

AuthArray_NoWrap(elements) ==
  LET x == Coalesce(elements, JsArr(<<>>))
  IN IF x.t = "array" THEN x.e ELSE <<>>

\* Array.isArray(x ?? []) ? (x ?? []) : [x]
AuthArray(elements) ==
  LET x == Coalesce(elements, JsArr(<<>>))
  IN IF x.t = "array" THEN x.e ELSE <<x>>

\* typeof r === "string" ? r.toLowerCase() : ""
ResultOf(entry) ==
  LET r == Get(entry, "result")
  IN IF r.t = "string" THEN ToLowerCase(r.s) ELSE ""

\* the inner for loops: entries of one list whose result is the wanted one
RECURSIVE CountResult(_, _)
CountResult(entries, wanted) ==
  IF entries = <<>> THEN 0
  ELSE (IF ResultOf(Head(entries)) = wanted THEN 1 ELSE 0)
       + CountResult(Tail(entries), wanted)

\* the loop over recordsArray for one counter
RECURSIVE CountRecords(_, _, _)
CountRecords(recs, method, wanted) ==
  IF recs = <<>> THEN 0
  ELSE LET authResults == Get(Head(recs), "auth_results")
       IN (IF Falsy(authResults) THEN 0
           ELSE CountResult(AuthArray(Get(authResults, method)), wanted))
          + CountRecords(Tail(recs), method, wanted)

RawXml_Trimmed(xml) == IF xml = <<>> THEN xml ELSE Tail(xml)

\* rawXml: xml
RawXml(xml) == xml

parseDMARCReportFromString(xml) ==
  LET parsed == ParseXML(xml) IN
  IF ~IsXMLDMARCFeedback(parsed)
  THEN [kind |-> "threw", error |-> "Invalid XML structure"]
  ELSE
    LET feedback == Coalesce(Get(parsed, "feedback"), parsed)
        reportMetadata == Get(feedback, "report_metadata")
        policyPublished == Get(feedback, "policy_published")
        dateRange == Get(reportMetadata, "date_range")
        recs == RecordsArray(Get(feedback, "record"))
    IN [kind |-> "report",
        reportId |-> Coalesce(Get(reportMetadata, "report_id"), JsStr("")),
        orgName |-> Coalesce(Get(reportMetadata, "org_name"), JsStr("")),
        domain |-> Coalesce(Get(policyPublished, "domain"), JsStr("")),
        beginDate |-> ParseInt(Coalesce(Get(dateRange, "begin"), JsStr("0"))),
        endDate |-> ParseInt(Coalesce(Get(dateRange, "end"), JsStr("0"))),
        dkimPass |-> CountRecords(recs, "dkim", "pass"),
        dkimFail |-> CountRecords(recs, "dkim", "fail"),
        dkimTemperror |-> CountRecords(recs, "dkim", "temperror"),
        spfPass |-> CountRecords(recs, "spf", "pass"),
        spfFail |-> CountRecords(recs, "spf", "fail"),
        spfTemperror |-> CountRecords(recs, "spf", "temperror"),
        policyP |-> Coalesce(Get(policyPublished, "p"), JsStr("none")),
        rawXml |-> RawXml(xml)]

\* ------------------------------------------------------------------------
\* DMARC aggregate reports given to the parser
\* ------------------------------------------------------------------------
MaxAuth == 2
MaxRecords == 2

Absent == "absent"

\* <result> texts of one dkim or spf entry (Absent: the entry has no <result>)
ResultTexts == {"PASS", "fail", "temperror", "permerror", Absent}

SeqsUpTo(S, n) == UNION {[1..k -> S] : k \in 0..n}

\* one <record>: without <auth_results>, or with dkim and spf entries
AuthRecords ==
  {[auth |-> TRUE, dkim |-> ds[1], spf |-> ds[2]] :
     ds \in {x \in SeqsUpTo(ResultTexts, MaxAuth) \X SeqsUpTo(ResultTexts, MaxAuth) :
               Len(x[1]) + Len(x[2]) <= MaxAuth}}

NoAuthRecord == [auth |-> FALSE, dkim |-> <<>>, spf |-> <<>>]

\* the records that follow the first one
FollowRecords ==
  {NoAuthRecord,
   [auth |-> TRUE, dkim |-> <<"fail">>, spf |-> <<"PASS">>],
   [auth |-> TRUE, dkim |-> <<"temperror", "PASS">>, spf |-> <<"fail", "temperror">>]}

RecordLists ==
  {<<>>} \cup
  {<<r>> \o rest : r \in AuthRecords \cup {NoAuthRecord},
                   rest \in SeqsUpTo(FollowRecords, MaxRecords - 1)}

\* texts of <begin> and <end>
DateTexts == {Absent, "1000", "2000", "abc", "", "12abc"}

NoMeta == [present |-> FALSE]

Metas ==
  {NoMeta} \cup
  {[present |-> TRUE, ids |-> i, range |-> r, begin |-> b, end |-> e] :
     i \in BOOLEAN, r \in {TRUE}, b \in DateTexts, e \in {Absent, "2000", "abc"}} \cup
  {[present |-> TRUE, ids |-> i, range |-> FALSE, begin |-> Absent, end |-> Absent] :
     i \in BOOLEAN}

FullMeta == [present |-> TRUE, ids |-> TRUE, range |-> TRUE, begin |-> "1000", end |-> "2000"]

NoPolicy == [present |-> FALSE]

Policies ==
  {NoPolicy} \cup
  {[present |-> TRUE, domain |-> d, p |-> q] :
     d \in {Absent, "example.com"}, q \in {Absent, "reject", "quarantine", "monitor", ""}}

FullPolicy == [present |-> TRUE, domain |-> "example.com", p |-> "reject"]

\* how the document wraps the report: in <feedback>, at top level, at top
\* level beside a <feedback> that holds only text, or in a foreign element
Layouts == {"wrapped", "flat", "text", "html"}

Optional(tag, text) == IF text = Absent THEN <<>> ELSE <<Leaf(tag, text)>>

AuthEntry(method, r) == Node(method, <<Leaf("domain", "example.com")>> \o Optional("result", r))

RECURSIVE AuthEntries(_, _)
AuthEntries(method, rs) ==
  IF rs = <<>> THEN <<>>
  ELSE <<AuthEntry(method, Head(rs))>> \o AuthEntries(method, Tail(rs))

RecordXml(r) ==
  Node("record",
       <<Node("row", <<Leaf("source_ip", "192.0.2.1")>>)>> \o
       (IF r.auth
          THEN <<Node("auth_results",
                      <<Leaf("note", "x")>> \o AuthEntries("dkim", r.dkim)
                                            \o AuthEntries("spf", r.spf))>>
          ELSE <<>>))

RECURSIVE RecordsXml(_)
RecordsXml(rs) ==
  IF rs = <<>> THEN <<>> ELSE <<RecordXml(Head(rs))>> \o RecordsXml(Tail(rs))

MetaXml(m) ==
  IF ~m.present THEN <<>>
  ELSE <<Node("report_metadata",
              (IF m.ids THEN <<Leaf("org_name", "google.com"), Leaf("report_id", "abc123")>>
                        ELSE <<>>) \o
              (IF m.range
                 THEN <<Node("date_range", Optional("begin", m.begin) \o Optional("end", m.end))>>
                 ELSE <<>>))>>

PolicyXml(q) ==
  IF ~q.present THEN <<>>
  ELSE <<Node("policy_published", Optional("domain", q.domain) \o Optional("p", q.p))>>

ReportXml(g) ==
  LET body == MetaXml(g.meta) \o PolicyXml(g.policy) \o RecordsXml(g.records)
  IN CASE g.layout = "wrapped" -> <<Node("feedback", body)>>
       [] g.layout = "flat" -> body
       [] g.layout = "text" -> <<Leaf("feedback", "see below")>> \o body
       [] g.layout = "html" -> <<Node("html", <<Leaf("body", "not dmarc")>> \o body)>>

\* the documents: every header with no records, and every record list under
\* a complete header
DmarcDocs ==
  {[layout |-> l, meta |-> m, policy |-> q, records |-> <<>>] :
     l \in Layouts, m \in Metas, q \in Policies} \cup
  {[layout |-> l, meta |-> h[1], policy |-> h[2], records |-> rs] :
     l \in {"wrapped", "flat"},
     h \in {<<FullMeta, FullPolicy>>, <<NoMeta, NoPolicy>>},
     rs \in RecordLists}

MaxParses == 2

InitDmarc ==
  /\ storage = <<>> /\ alarm = Null /\ now = 0
  /\ outbox = <<>> /\ failed = {} /\ errlog = {}
  /\ sends = [r \in ReportIds |-> 0]
  /\ enqMin = Null /\ status = "ok" /\ rejected = {}
  /\ last = [op |-> "init"]
  /\ \E g \in DmarcDocs : input = [call |-> "parseDMARCReportFromString", doc |-> g, xml |-> ReportXml(g)]
  /\ result = <<>>
  /\ frames = NoFrames

\* one call parseDMARCReportFromString(xml) on the text at hand
ParseDmarc ==
  /\ Len(result) < MaxParses
  /\ result' = Append(result, parseDMARCReportFromString(input.xml))
  /\ last' = [op |-> "parse"]
  /\ UNCHANGED <<storage, alarm, now, outbox, failed, errlog, sends, enqMin,
                 status, rejected, input, frames>>

NextDmarc == ParseDmarc

SpecDmarc == InitDmarc /\ [][NextDmarc]_vars

\* ------------------------------------------------------------------------
\* JSON text and JSON.parse
\* ------------------------------------------------------------------------
\* A JSON text is malformed or is a value: null, a string, a number, an
\* array of values or an object, written as its members in text order.
JsonBad == [j |-> "bad"]

JsonNull == [j |-> "null"]

JsonStr(s) == [j |-> "str", s |-> s]

JsonNum(n) == [j |-> "num", n |-> n]

JsonArr(items) == [j |-> "arr", items |-> items]

JsonObjText(members) == [j |-> "obj", members |-> members]

\* the last member with a key is the one JSON.parse keeps
LastMember(members, key) ==
  LET hits == {i \in 1..Len(members) : members[i][1] = key}
  IN members[CHOOSE i \in hits : \A k \in hits : k <= i][2]

\* the value JSON.parse builds from a well-formed text
RECURSIVE JsonValue(_)
JsonValue(text) ==
  CASE text.j = "null" -> JsNull
    [] text.j = "str" -> JsStr(text.s)
    [] text.j = "num" -> JsNum(text.n)
    [] text.j = "arr" -> JsArr([i \in 1..Len(text.items) |-> JsonValue(text.items[i])])
    [] text.j = "obj" ->
         JsObj([key \in {text.members[i][1] : i \in 1..Len(text.members)} |->
                  JsonValue(LastMember(text.members, key))])

\* ------------------------------------------------------------------------
\* parseTLSReport
\* ------------------------------------------------------------------------
isTLSReport(obj) ==
  IF ~IsObjectType(obj) THEN FALSE
  ELSE /\ HasKey(obj, "organization-name")
       /\ Get(obj, "organization-name").t = "string"
       /\ HasKey(obj, "report-id")
       /\ Get(obj, "report-id").t = "string"
       /\ HasKey(obj, "date-range")
       /\ IsObjectType(Get(obj, "date-range"))

Returned(v, logged) == [kind |-> "returned", value |-> v, log |-> logged]

ReturnedReport_PoliciesChecked(parsed) ==
  IF HasKey(parsed, "policies") /\ Get(parsed, "policies").t = "array"
  THEN parsed
  ELSE JsObj([key \in DOMAIN parsed.f \ {"policies"} |-> parsed.f[key]])

\* return parsed
ReturnedReport(parsed) == parsed

parseTLSReport(content) ==
  IF content = JsonBad
  THEN Returned(JsNull, "Failed to parse TLS-RPT JSON:")
  ELSE LET parsed == JsonValue(content)
       IN IF isTLSReport(parsed)
          THEN Returned(ReturnedReport(parsed), "")
          ELSE Returned(JsNull, "Invalid TLS-RPT structure")

\* ------------------------------------------------------------------------
\* TLS-RPT reports given to the parser
\* ------------------------------------------------------------------------
\* what a member of the top-level object is
Forms == {Absent, "string", "number", "null", "object", "array"}

\* what the text is at top level
Tops == {"bad", "null", "array", "string", "number", "object"}

\* what policies is: one well-formed policy, entries that are no policies,
\* or no array at all
PolicyForms == {Absent, "empty", "policy", "junk", "string"}

TlsDocs ==
  {[top |-> t, org |-> Absent, rid |-> Absent, range |-> Absent, policies |-> Absent] :
     t \in Tops \ {"object"}} \cup
  {[top |-> "object", org |-> o, rid |-> r, range |-> d, policies |-> q] :
     o \in Forms, r \in Forms, d \in Forms, q \in PolicyForms}

DateRangeText ==
  JsonObjText(<< <<"start-datetime", JsonStr("2024-01-01T00:00:00Z")>>,
                 <<"end-datetime", JsonStr("2024-01-01T23:59:59Z")>> >>)

PolicyText ==
  JsonObjText(<< <<"policy-type", JsonStr("sts")>>,
                 <<"policy-domain", JsonStr("example.com")>>,
                 <<"summary", JsonObjText(<< <<"total-successful-session-count", JsonNum(100)>>,
                                            <<"total-failure-session-count", JsonNum(2)>> >>)>> >>)

FormText(form, str) ==
  CASE form = "string" -> JsonStr(str)
    [] form = "number" -> JsonNum(42)
    [] form = "null" -> JsonNull
    [] form = "object" -> DateRangeText
    [] form = "array" -> JsonArr(<<JsonStr("2024-01-01T00:00:00Z")>>)

PoliciesText(form) ==
  CASE form = "empty" -> JsonArr(<<>>)
    [] form = "policy" -> JsonArr(<<PolicyText>>)
    [] form = "junk" -> JsonArr(<<JsonNum(7), JsonNull, JsonObjText(<<>>)>>)
    [] form = "string" -> JsonStr("none")

Member(key, form, text) == IF form = Absent THEN <<>> ELSE << <<key, text>> >>

TlsJson(g) ==
  CASE g.top = "bad" -> JsonBad
    [] g.top = "null" -> JsonNull
    [] g.top = "array" -> JsonArr(<<>>)
    [] g.top = "string" -> JsonStr("just a string")
    [] g.top = "number" -> JsonNum(42)
    [] g.top = "object" ->
         JsonObjText(Member("organization-name", g.org, FormText(g.org, "google.com")) \o
                     Member("date-range", g.range, FormText(g.range, "2024")) \o
                     <<  <<"contact-info", JsonStr("mailto:tls@google.com")>> >> \o
                     Member("report-id", g.rid, FormText(g.rid, "tls-abc123")) \o
                     Member("policies", g.policies, PoliciesText(g.policies)))

InitTls ==
  /\ storage = <<>> /\ alarm = Null /\ now = 0
  /\ outbox = <<>> /\ failed = {} /\ errlog = {}
  /\ sends = [r \in ReportIds |-> 0]
  /\ enqMin = Null /\ status = "ok" /\ rejected = {}
  /\ last = [op |-> "init"]
  /\ \E g \in TlsDocs : input = [call |-> "parseTLSReport", doc |-> g, content |-> TlsJson(g)]
  /\ result = <<>>
  /\ frames = NoFrames

\* one call parseTLSReport(content) on the text at hand
ParseTls ==
  /\ Len(result) < MaxParses
  /\ result' = Append(result, parseTLSReport(input.content))
  /\ last' = [op |-> "parse"]
  /\ UNCHANGED <<storage, alarm, now, outbox, failed, errlog, sends, enqMin,
                 status, rejected, input, frames>>

NextTls == ParseTls

SpecTls == InitTls /\ [][NextTls]_vars

\* ------------------------------------------------------------------------
\* The worker: email handler, queueReply, sendReply and the queue
\* ------------------------------------------------------------------------
MaxAttachments == 2
MaxWorkerTick == 1

\* delaySeconds: 3600
DelaySeconds == 3600

\* REPLY_QUEUE is declared a Durable Object namespace by Env and a Queue by
\* the tests' ProvidedEnv; both bindings are optional
WorkerEnvs == [REPLY_QUEUE : {"undefined", "durable-object", "queue"},
               EMAIL : {"undefined", "send_email"}]

\* what detectAndDecompress and the parsers make of an attachment
Attachments ==
  [type : {"dmarc"}, reportId : ReportIds, valid : {TRUE}] \cup
  [type : {"dmarc", "unknown"}, reportId : {1}, valid : {FALSE}] \cup
  [type : {"tlsrpt"}, reportId : {2}, valid : {TRUE}]

\* the checks before the attachments: all pass
Passing == [rateOk |-> TRUE, trusted |-> TRUE, dmarc |-> "pass"]

\* one of the checks fails
Failing ==
  {[rateOk |-> FALSE, trusted |-> TRUE, dmarc |-> "pass"],
   [rateOk |-> TRUE, trusted |-> FALSE, dmarc |-> "pass"],
   [rateOk |-> TRUE, trusted |-> TRUE, dmarc |-> "fail"]}

\* an incoming message: the outcome of the rate limiter, the sender's
\* domain, the dmarc= verdict of Authentication-Results, the Message-ID
\* header (Null: none) and the attachments
\* no check fails, and Authentication-Results has no dmarc= verdict or one
\* that is neither pass nor fail
Unverified ==
  {[rateOk |-> TRUE, trusted |-> TRUE, dmarc |-> "absent"],
   [rateOk |-> TRUE, trusted |-> TRUE, dmarc |-> "none"]}

Mails ==
  [gate : {Passing}, msgId : {1, Null},
   attachments : SeqsUpTo(Attachments, MaxAttachments)] \cup
  [gate : Failing \cup Unverified, msgId : {1},
   attachments : {<<[type |-> "dmarc", reportId |-> 1, valid |-> TRUE]>>}]

\* the jobs put into the queue directly
WorkerMsgs == [reportId : {1}, messageId : MessageIds, sendAt : {0}]

\* await env.REPLY_QUEUE.send(...): a Durable Object namespace has no send,
\* a Queue takes the message
QueueReply(env, mail, reportId) ==
  IF env.REPLY_QUEUE = "undefined" THEN [outcome |-> "returned", queued |-> <<>>]
  ELSE IF mail.msgId = Null THEN [outcome |-> "returned", queued |-> <<>>]
  ELSE IF env.REPLY_QUEUE = "durable-object" THEN [outcome |-> "threw", queued |-> <<>>]
  ELSE [outcome |-> "returned",
        queued |-> <<[messageId |-> mail.msgId, reportId |-> reportId,
                      delaySeconds |-> DelaySeconds]>>]

NoEmail == [outcome |-> "none", raw |-> FALSE, gate |-> Passing, msgId |-> Null,
            parsed |-> 0, stored |-> <<>>, queued |-> <<>>, queueReply |-> <<>>]

\* for (const attachment of parsed.attachments)
RECURSIVE ProcessAttachments(_, _, _, _)
ProcessAttachments(env, mail, atts, r) ==
  IF atts = <<>> THEN r
  ELSE LET a == Head(atts) IN
       IF a.type = "dmarc"
       THEN IF ~a.valid THEN [r EXCEPT !.outcome = "rejected", !.parsed = @ + 1]
            ELSE LET q == QueueReply(env, mail, a.reportId)
                     r2 == [r EXCEPT !.parsed = @ + 1,
                                     !.stored = Append(@, [type |-> "dmarc", reportId |-> a.reportId]),
                                     !.queued = @ \o q.queued,
                                     !.queueReply = Append(@, q.outcome)]
                 IN IF q.outcome = "threw" THEN [r2 EXCEPT !.outcome = "rejected"]
                    ELSE ProcessAttachments(env, mail, Tail(atts), r2)
       ELSE IF a.type = "tlsrpt" /\ a.valid
       THEN ProcessAttachments(env, mail, Tail(atts),
                [r EXCEPT !.parsed = @ + 1,
                          !.stored = Append(@, [type |-> "tlsrpt", reportId |-> a.reportId])])
       ELSE ProcessAttachments(env, mail, Tail(atts), r)

\* email(message, env)
EmailHandler(env, mail) ==
  LET r0 == [NoEmail EXCEPT !.outcome = "resolved", !.raw = TRUE, !.gate = mail.gate,
                            !.msgId = mail.msgId] IN
  IF ~mail.gate.rateOk THEN r0
  ELSE IF ~mail.gate.trusted THEN r0
  ELSE IF mail.gate.dmarc = "fail" THEN r0
  ELSE IF mail.attachments = <<>> THEN r0
  ELSE ProcessAttachments(env, mail, mail.attachments, r0)

SendReply_RejectsUnbound(env, accepted) ==
  IF env.EMAIL = "undefined" THEN "rejected"
  ELSE IF accepted THEN "sent" ELSE "rejected"

\* sendReply(msg, env): nothing to do without the EMAIL binding, else the
\* outcome of env.EMAIL.send
SendReply(env, accepted) ==
  IF env.EMAIL = "undefined" THEN "returned"
  ELSE IF accepted THEN "sent" ELSE "rejected"

InitWorker ==
  /\ storage = <<>> /\ alarm = Null /\ now = 0
  /\ outbox = <<>> /\ failed = {} /\ errlog = {}
  /\ sends = [r \in ReportIds |-> 0]
  /\ enqMin = Null /\ status = "ok" /\ rejected = {}
  /\ last = [op |-> "init"]
  /\ \E env \in WorkerEnvs : input = [call |-> "worker", env |-> env]
  /\ result = [email |-> NoEmail, mailed |-> <<>>]
  /\ frames = NoFrames

\* one incoming message handled by email(); the queue is not touched
EmailOp ==
  \E mail \in Mails :
    /\ result' = [email |-> EmailHandler(input.env, mail), mailed |-> <<>>]
    /\ last' = [op |-> "email"]
    /\ outbox' = <<>> /\ failed' = {} /\ errlog' = {}
    /\ status' = "ok" /\ rejected' = {}
    /\ UNCHANGED <<storage, alarm, now, sends, enqMin, input, frames>>

\* stub.enqueue(msg)
EnqueueWorker == \E msg \in WorkerMsgs : Enqueue(msg, "none")

\* alarm() with sendReply bound to the worker's env
AlarmWorker(how) ==
  \E accepted \in SendOutcomes(storage, now) :
    LET outcome == [k \in DueKeys(storage, now) |-> SendReply(input.env, accepted[k])]
        ok == [k \in DueKeys(storage, now) |-> outcome[k] # "rejected"]
        h == AlarmHandler(storage, IF how = "fire" THEN Null ELSE alarm, sends, now, ok, NoFaults)
    IN /\ HandledQueue(h, how)
       /\ result' = [email |-> NoEmail,
                      mailed |-> IF input.env.EMAIL = "undefined" THEN <<>> ELSE h.outbox]
       /\ UNCHANGED input

AlarmFireWorker == alarm # Null /\ alarm <= now /\ AlarmWorker("fire")

AlarmDirectWorker == (\A r \in ReportIds : sends[r] < MaxFaultSends) /\ AlarmWorker("direct")

TickWorker == now < MaxWorkerTick * TickMs /\ Tick

NextWorker == EmailOp \/ EnqueueWorker \/ AlarmFireWorker \/ AlarmDirectWorker \/ TickWorker

SpecWorker == InitWorker /\ [][NextWorker]_vars

\* ------------------------------------------------------------------------
\* storeReport and storeTLSReport
\* ------------------------------------------------------------------------
MaxPolicies == 2

\* an entry of report.policies: its policy-domain and what happens to its
\* insert: the row is written, the database rejects the statement, or the
\* entry has no summary and binding the values throws
Policy == [domain : {"a.com", "b.com"}, insert : {"ok", "rejects", "no-summary"}]

\* report.policies: absent, or an array of entries
PolicyLists == {<<Absent>>} \cup {<<"array", ps>> : ps \in SeqsUpTo(Policy, MaxPolicies)}

RECURSIVE InsertPolicies_StopsAtFailure(_, _)
InsertPolicies_StopsAtFailure(policies, r) ==
  IF policies = <<>> THEN r
  ELSE LET policy == Head(policies)
           r2 == [r EXCEPT !.attempts = Append(@, policy.domain)]
       IN IF policy.insert = "ok"
          THEN InsertPolicies_StopsAtFailure(Tail(policies),
                                             [r2 EXCEPT !.rows = Append(@, policy.domain)])
          ELSE [r2 EXCEPT !.logged = Append(@, "TLS-RPT insert failed:")]

\* for (const policy of policies) { try { insert } catch { console.error } }
RECURSIVE InsertPolicies(_, _)
InsertPolicies(policies, r) ==
  IF policies = <<>> THEN r
  ELSE LET policy == Head(policies)
           r2 == [r EXCEPT !.attempts = Append(@, policy.domain)]
       IN InsertPolicies(Tail(policies),
            IF policy.insert = "ok"
            THEN [r2 EXCEPT !.rows = Append(@, policy.domain)]
            ELSE [r2 EXCEPT !.logged = Append(@, "TLS-RPT insert failed:")])

\* storeTLSReport(report, env): report.policies ?? []
storeTLSReport(policies) ==
  InsertPolicies(IF policies[1] = Absent THEN <<>> ELSE policies[2],
                 [call |-> "storeTLSReport", outcome |-> "resolved",
                  attempts |-> <<>>, rows |-> <<>>, logged |-> <<>>])

\* the DMARC reports stored: a report id and, standing for the other
\* columns, the reporting organisation
StoredReports == [reportId : ReportIds, orgName : {"google.com", "yahoo.com"}]

InsertOrIgnore_Replaces(table, report) ==
  [id \in DOMAIN table \cup {report.reportId} |->
     IF id = report.reportId THEN report ELSE table[id]]

\* INSERT ... ON CONFLICT (report_id) DO NOTHING
InsertOrIgnore(table, report) ==
  [id \in DOMAIN table \cup {report.reportId} |->
     IF id \in DOMAIN table THEN table[id] ELSE report]

\* storeInD1: the insert inside try / catch
storeInD1(table, report, ok) ==
  IF ok THEN [table |-> InsertOrIgnore(table, report), logged |-> {}, settled |-> "fulfilled"]
  ELSE [table |-> table, logged |-> {"D1 insert failed:"}, settled |-> "fulfilled"]

\* what can go wrong in storeInPostgres: nothing, the insert, or creating
\* the client, which is outside the try
PgFaults == {"none", "insert", "connect"}

storeInPostgres(table, report, fault) ==
  CASE fault = "none" ->
         [table |-> InsertOrIgnore(table, report), logged |-> {}, settled |-> "fulfilled"]
    [] fault = "insert" ->
         [table |-> table, logged |-> {"Postgres insert failed:"}, settled |-> "fulfilled"]
    [] fault = "connect" ->
         [table |-> table, logged |-> {}, settled |-> "rejected"]

\* storeReport(report, "dmarc", env): analytics, then Promise.allSettled of
\* the D1 insert and, with HYPERDRIVE, the Postgres insert
storeReport(db, env, report, d1ok, pgFault) ==
  LET d == storeInD1(db.d1, report, d1ok)
      g == IF env.HYPERDRIVE # "undefined" THEN storeInPostgres(db.pg, report, pgFault)
           ELSE [table |-> db.pg, logged |-> {}, settled |-> "fulfilled"]
  IN [d1 |-> d.table, pg |-> g.table,
      obs |-> [call |-> "storeReport", outcome |-> "resolved", report |-> report,
               d1ok |-> d1ok, pgFault |-> pgFault,
               tried |-> {"analytics", "d1"} \cup
                         (IF env.HYPERDRIVE # "undefined" THEN {"postgres"} ELSE {}),
               settled |-> <<d.settled, g.settled>>,
               logged |-> d.logged \cup g.logged]]

InitStore ==
  /\ storage = <<>> /\ alarm = Null /\ now = 0
  /\ outbox = <<>> /\ failed = {} /\ errlog = {}
  /\ sends = [r \in ReportIds |-> 0]
  /\ enqMin = Null /\ status = "ok" /\ rejected = {}
  /\ last = [op |-> "init"]
  /\ \E h \in {"undefined", "configured"} :
       input = [call |-> "store", env |-> [HYPERDRIVE |-> h]]
  /\ result = [d1 |-> <<>>, pg |-> <<>>, obs |-> NoCall]
  /\ frames = NoFrames

StoreReportOp ==
  \E report \in StoredReports : \E d1ok \in BOOLEAN : \E pgFault \in PgFaults :
    /\ result' = storeReport(result, input.env, report, d1ok, pgFault)
    /\ last' = [op |-> "storeReport"]
    /\ UNCHANGED <<storage, alarm, now, outbox, failed, errlog, sends, enqMin,
                   status, rejected, input, frames>>

StoreTLSReportOp ==
  \E policies \in PolicyLists :
    /\ result' = [result EXCEPT !.obs = storeTLSReport(policies)]
    /\ last' = [op |-> "storeTLSReport", policies |-> policies]
    /\ UNCHANGED <<storage, alarm, now, outbox, failed, errlog, sends, enqMin,
                   status, rejected, input, frames>>

NextStore == StoreReportOp \/ StoreTLSReportOp

SpecStore == InitStore /\ [][NextStore]_vars

\* ------------------------------------------------------------------------
\* Vocabulary of the properties
\* ------------------------------------------------------------------------
Stored == DOMAIN storage

SendAtOf(st) == {st[k].msg.sendAt : k \in DOMAIN st}

\* the step just taken was a run of alarm()
HandlerRan == last'.op \in {"fire", "direct"}

\* the step just taken was enqueue(last'.msg)
EnqueueRan == last'.op = "enqueue"

\* reportIds of the jobs a handler run starting now has to send
DueIds == {KeyId(k) : k \in DueKeys(storage, now)}

\* ------------------------------------------------------------------------
\* C1
\* ------------------------------------------------------------------------
\* C1 as stated: between operations, a stored job implies the alarm is set
\* and equals the minimum sendAt of the stored jobs, and an empty queue
\* implies the alarm is unset.
C1_AlarmIsMinimum ==
  IF Stored # {} THEN alarm # Null /\ alarm = SetMin(SendAtOf(storage))
  ELSE alarm = Null

\* C1 amended: between operations, a stored job implies the alarm is set and
\* is no later than the minimum sendAt of the stored jobs; after every
\* handler run that leaves a job stored the alarm equals that minimum, and
\* after a run fired by the runtime that leaves no job the alarm is unset.
C1_AlarmCoversMinimum ==
  /\ [](Stored # {} => alarm # Null /\ alarm <= SetMin(SendAtOf(storage)))
  /\ [][HandlerRan =>
          IF Stored' # {} THEN alarm' = SetMin(SendAtOf(storage'))
          ELSE (last'.op = "fire" => alarm' = Null)]_vars

\* C1 witness: a job was replaced by a later one and the alarm still holds
\* the replaced job's time, earlier than every stored sendAt.
C1_StaleAlarmReached ==
  /\ last.op = "enqueue" /\ last.replaced
  /\ alarm # Null /\ alarm < SetMin(SendAtOf(storage))

\* ------------------------------------------------------------------------
\* C2
\* ------------------------------------------------------------------------
\* C2: the queue never holds two jobs of one reportId, every job sits under
\* the key of its reportId, and enqueue(msg) leaves exactly the job
\* {msg, attempts: 0} for msg.reportId, whatever was stored for it before.
C2_OneJobPerReport ==
  /\ [](\A k1, k2 \in Stored :
          storage[k1].msg.reportId = storage[k2].msg.reportId => k1 = k2)
  /\ [][EnqueueRan =>
          LET m == last'.msg
              mine == {k \in Stored' : storage'[k].msg.reportId = m.reportId}
          IN /\ Cardinality(mine) = 1
             /\ \A k \in mine : storage'[k] = [msg |-> m, attempts |-> 0]
             /\ Cardinality(Stored') =
                  Cardinality({k \in Stored : storage[k].msg.reportId # m.reportId}) + 1]_vars

\* C2 witness: an enqueue has just replaced a job that had already failed
\* (the handler has run), and the stored job is the new message at attempts 0.
C2_ReplacedReached ==
  /\ last.op = "enqueue" /\ last.replaced /\ enqMin = Void
  /\ \E k \in Stored : storage[k] = [msg |-> last.msg, attempts |-> 0]
  /\ Cardinality(Stored) = 1

\* ------------------------------------------------------------------------
\* C3
\* ------------------------------------------------------------------------
\* C3: enqueue(msg) sets the alarm to msg.sendAt exactly when the alarm is
\* unset or later than msg.sendAt and otherwise leaves it unchanged; while
\* only enqueues have run on a fresh queue the alarm equals the smallest
\* sendAt enqueued so far.
C3_EnqueueMovesAlarmEarlier ==
  /\ [][EnqueueRan =>
          alarm' = IF alarm = Null \/ alarm > last'.msg.sendAt
                   THEN last'.msg.sendAt ELSE alarm]_vars
  /\ [](enqMin # Null /\ enqMin # Void => alarm = enqMin)

\* C3 witness: three jobs with distinct reportIds and distinct sendAt values
\* are stored, the latest enqueue brought the earliest sendAt, and the alarm
\* equals it.
C3_ThirdJobEarliestReached ==
  /\ Cardinality(Stored) = 3
  /\ Cardinality(SendAtOf(storage)) = 3
  /\ last.op = "enqueue" /\ ~last.replaced
  /\ last.msg.sendAt = SetMin(SendAtOf(storage))
  /\ alarm = last.msg.sendAt

\* ------------------------------------------------------------------------
\* C4
\* ------------------------------------------------------------------------
\* C4 as stated: a handler run deletes every due job whose send succeeded;
\* when every stored job was due and every send succeeded, no job remains
\* and the alarm is unset after the run.
C4_SentJobsDeletedAlarmUnset ==
  [][HandlerRan =>
       /\ \A k \in DueKeys(storage, now) : KeyId(k) \notin failed' => k \notin Stored'
       /\ (Stored # {} /\ DueKeys(storage, now) = Stored /\ failed' = {})
            => Stored' = {} /\ alarm' = Null]_vars

\* C4 amended: a handler run deletes every due job whose send succeeded, and
\* only an enqueue for its reportId stores a job under that key again; when
\* every stored job was due and every send succeeded, no job remains and the
\* handler leaves the alarm as it found it: unset after a run fired by the
\* runtime (which clears the alarm before the call), unchanged after a
\* direct call of alarm().
C4_SentJobsDeleted ==
  /\ [][HandlerRan =>
          /\ \A k \in DueKeys(storage, now) : KeyId(k) \notin failed' => k \notin Stored'
          /\ (Stored # {} /\ DueKeys(storage, now) = Stored /\ failed' = {})
               => /\ Stored' = {}
                  /\ alarm' = IF last'.op = "fire" THEN Null ELSE alarm]_vars
  /\ [][\A k \in Stored' \ Stored : EnqueueRan /\ k = <<"job:", last'.msg.reportId>>]_vars

\* C4 witness: the runtime fired the alarm, every stored job was sent, and
\* the run left an empty queue with no alarm.
C4_AllSentReached ==
  /\ last.op = "fire"
  /\ Len(outbox) >= 1 /\ failed = {}
  /\ Stored = {} /\ alarm = Null

\* ------------------------------------------------------------------------
\* C5
\* ------------------------------------------------------------------------
\* retry delays in minutes for attempts 1 to 4
DelayMinutes == <<5, 10, 20, 40>>

\* C5: when a due job's send fails and attempts + 1 < 5, the run stores the
\* job with attempts + 1 and sendAt = now + 5, 10, 20 or 40 minutes for the
\* new attempts 1 to 4 (now as read by that run), the rest of the message
\* unchanged, and the alarm it leaves is no later than the new sendAt.
C5_BackoffSchedule ==
  [][HandlerRan =>
       \A k \in DueKeys(storage, now) :
         LET job == storage[k]
             n == job.attempts + 1
         IN (KeyId(k) \in failed' /\ n < 5) =>
              /\ k \in Stored'
              /\ storage'[k].attempts = n
              /\ storage'[k].msg.sendAt = now + DelayMinutes[n] * 60 * 1000
              /\ storage'[k].msg.reportId = job.msg.reportId
              /\ storage'[k].msg.messageId = job.msg.messageId
              /\ alarm' # Null /\ alarm' <= storage'[k].msg.sendAt]_vars

\* C5 witness: a job has just failed for the fourth time and is stored with
\* attempts 4, due 40 minutes after the run.
C5_FourthRetryReached ==
  /\ last.op \in {"fire", "direct"}
  /\ \E k \in Stored :
       /\ KeyId(k) \in failed
       /\ storage[k].attempts = 4
       /\ storage[k].msg.sendAt = now + 40 * 60 * 1000

\* ------------------------------------------------------------------------
\* C6
\* ------------------------------------------------------------------------
\* C6: a stored job's attempts is the number of sends that failed in a row
\* since its enqueue and stays below 5; the run in which the 5th send in a
\* row fails deletes the job and logs the drop instead of storing a 5th
\* reschedule; from then on the job is not stored and not sent until an
\* enqueue for its reportId.
C6_DroppedAfterFifthFailure ==
  /\ [](\A k \in Stored :
          /\ storage[k].attempts = sends[storage[k].msg.reportId]
          /\ storage[k].attempts < 5)
  /\ [](\A r \in DOMAIN sends :
          sends[r] >= 5 => sends[r] = 5 /\ \A k \in Stored : storage[k].msg.reportId # r)
  /\ [][HandlerRan =>
          \A k \in DueKeys(storage, now) :
            (KeyId(k) \in failed' /\ storage[k].attempts = 4) =>
               /\ k \notin Stored'
               /\ KeyId(k) \in errlog'
               /\ sends'[KeyId(k)] = 5]_vars
  /\ [][\A r \in DOMAIN sends :
          /\ r \in errlog' => r \in failed' /\ sends'[r] = 5
          /\ sends'[r] # sends[r] =>
               \/ EnqueueRan /\ last'.msg.reportId = r /\ sends'[r] = 0
               \/ HandlerRan /\ r \in DueIds /\ sends'[r] = sends[r] + 1]_vars

\* C6 witness: a run has just dropped a job at its 5th failed send: the drop
\* is logged and the job is no longer stored.
C6_DropReached ==
  /\ last.op \in {"fire", "direct"}
  /\ \E r \in errlog :
       /\ r \in failed
       /\ sends[r] = 5
       /\ \A k \in Stored : storage[k].msg.reportId # r

\* ------------------------------------------------------------------------
\* C7
\* ------------------------------------------------------------------------
\* C7: a handler run leaves every job with sendAt > now stored and unchanged
\* and hands none of them to sendReply; when such jobs exist and every due
\* job was sent, exactly the jobs with sendAt > now remain and the alarm
\* equals their smallest sendAt.
C7_FutureJobsUntouched ==
  [][HandlerRan =>
       LET future == Stored \ DueKeys(storage, now) IN
       /\ \A k \in future :
            /\ k \in Stored' /\ storage'[k] = storage[k]
            /\ \A i \in 1..Len(outbox') : outbox'[i].reportId # storage[k].msg.reportId
       /\ (future # {} /\ failed' = {}) =>
            /\ Stored' = future
            /\ alarm' = SetMin({storage[k].msg.sendAt : k \in future})]_vars

\* C7 witness: a run has just sent one due job and left one future job,
\* still at attempts 0, with the alarm at its sendAt.
C7_MixedBatchReached ==
  /\ last.op \in {"fire", "direct"}
  /\ Len(outbox) = 1 /\ failed = {}
  /\ Cardinality(Stored) = 1
  /\ \A k \in Stored :
       /\ storage[k].msg.sendAt > now
       /\ storage[k].attempts = 0
       /\ alarm = storage[k].msg.sendAt

\* ------------------------------------------------------------------------
\* C8
\* ------------------------------------------------------------------------
\* C8: a handler run hands every due job of its listing to sendReply exactly
\* once, and nothing else, whatever the outcome of the other sends.
C8_EveryDueJobAttempted ==
  [][HandlerRan =>
       /\ Len(outbox') = Cardinality(DueKeys(storage, now))
       /\ \A k \in DueKeys(storage, now) :
            Cardinality({i \in 1..Len(outbox') : outbox'[i] = storage[k].msg}) = 1]_vars

\* C8 witness: in one run the first job's send failed and dropped it, and
\* the second job was attempted all the same.
C8_AttemptAfterDropReached ==
  /\ last.op \in {"fire", "direct"}
  /\ Len(outbox) = 2
  /\ outbox[1].reportId \in errlog
  /\ outbox[2].reportId # outbox[1].reportId

\* ------------------------------------------------------------------------
\* C9
\* ------------------------------------------------------------------------
\* C9: an operation in which a storage call rejects rejects itself, and a
\* storage failure is never handled as a send failure: a job whose send did
\* not fail is deleted or left exactly as it was, never rescheduled with
\* one more attempt and never logged as dropped.
C9_StorageFailurePropagates ==
  [][/\ rejected' # {} => status' = "threw"
     /\ HandlerRan =>
          \A k \in Stored :
            KeyId(k) \notin failed' =>
              /\ KeyId(k) \notin errlog'
              /\ k \in Stored' => storage'[k] = storage[k]]_vars

\* ------------------------------------------------------------------------
\* C10
\* ------------------------------------------------------------------------
\* C10 as stated: a handler run that finds no job due sends, changes and
\* deletes nothing, and afterwards the alarm equals the minimum sendAt of
\* the stored jobs, or is unset if the queue is empty.
C10_SpuriousWakeUnsetsAlarm ==
  [][(HandlerRan /\ DueKeys(storage, now) = {}) =>
       /\ storage' = storage /\ outbox' = <<>> /\ errlog' = {}
       /\ alarm' = IF Stored = {} THEN Null ELSE SetMin(SendAtOf(storage))]_vars

\* C10 amended: a handler run that finds no job due sends, changes and
\* deletes nothing; afterwards the alarm equals the minimum sendAt of the
\* stored jobs, and with an empty queue the handler does not touch the
\* alarm: it is unset after a run fired by the runtime and keeps its
\* recorded value after a direct call of alarm().
C10_SpuriousWakeHarmless ==
  [][(HandlerRan /\ DueKeys(storage, now) = {}) =>
       /\ storage' = storage /\ outbox' = <<>> /\ errlog' = {}
       /\ alarm' = IF Stored # {} THEN SetMin(SendAtOf(storage))
                   ELSE IF last'.op = "fire" THEN Null ELSE alarm]_vars

\* C10 witness: the runtime fired an alarm left behind by a replaced job,
\* nothing was due, and the run moved the alarm to the stored minimum.
C10_SpuriousFireReached ==
  /\ last.op = "fire"
  /\ outbox = <<>>
  /\ Stored # {}
  /\ alarm = SetMin(SendAtOf(storage))
  /\ alarm > now

\* ------------------------------------------------------------------------
\* C11
\* ------------------------------------------------------------------------
\* C11: since the latest enqueue of a reportId, sendReply has been called at
\* most 5 times for it, and every stored job has 0 <= attempts <= 4.
C11_AtMostFiveSends ==
  /\ [](\A r \in DOMAIN sends : sends[r] >= 0 /\ sends[r] <= 5)
  /\ [](\A k \in Stored : storage[k].attempts \in 0..4)

\* C11 witness: the 5th send of a job has just succeeded, after four failed
\* ones, while another job is stored.
C11_FifthSendReached ==
  /\ last.op \in {"fire", "direct"}
  /\ \E r \in DOMAIN sends :
       /\ sends[r] = 5
       /\ r \notin failed /\ r \notin errlog
       /\ \E i \in 1..Len(outbox) : outbox[i].reportId = r
  /\ Stored # {}

\* ------------------------------------------------------------------------
\* Properties of parseDMARCReportFromString
\* ------------------------------------------------------------------------
\* the document's <feedback> has child elements
WrapperIsObject(g) ==
  /\ g.layout = "wrapped"
  /\ (g.meta.present \/ g.policy.present \/ g.records # <<>>)

\* report_metadata or policy_published stands at top level
TopLevelHeader(g) ==
  /\ g.layout \in {"flat", "text"}
  /\ (g.meta.present \/ g.policy.present)

Parsed == Len(result) >= 1

\* C12: the parse throws 'Invalid XML structure' exactly when the document
\* has neither a feedback wrapper that is an object nor a top-level
\* report_metadata or policy_published; every other document yields a report.
C12_ThrowsIffUnrecognized ==
  \A i \in 1..Len(result) :
    IF WrapperIsObject(input.doc) \/ TopLevelHeader(input.doc)
    THEN result[i].kind = "report"
    ELSE result[i] = [kind |-> "threw", error |-> "Invalid XML structure"]

\* a <feedback> holding only text and nothing beside it was rejected
C12_TextWrapperRejected ==
  /\ Parsed
  /\ input.doc.layout = "text"
  /\ ~input.doc.meta.present /\ ~input.doc.policy.present
  /\ result[1].kind = "threw"

\* lower-casing of the result texts, for counting what a document holds
Canonical(r) == IF r = "PASS" THEN "pass" ELSE r

EntriesOf(rec, method) == IF method = "dkim" THEN rec.dkim ELSE rec.spf

\* the auth-result entries of a document with a given lower-cased result
Holds(g, method, wanted) ==
  UNION {{<<i, j>> : j \in {k \in 1..Len(EntriesOf(g.records[i], method)) :
                             Canonical(EntriesOf(g.records[i], method)[k]) = wanted}} :
         i \in {n \in 1..Len(g.records) : g.records[n].auth}}

\* C13: in every report each of the six counters is the number of entries,
\* over all records and the record's dkim (spf) list, whose lower-cased
\* result is pass / fail / temperror, whether a list holds one element or
\* several; other and missing results and records without auth_results
\* count nothing.
C13_CountersCountEntries ==
  \A i \in 1..Len(result) :
    result[i].kind = "report" =>
      /\ result[i].dkimPass = Cardinality(Holds(input.doc, "dkim", "pass"))
      /\ result[i].dkimFail = Cardinality(Holds(input.doc, "dkim", "fail"))
      /\ result[i].dkimTemperror = Cardinality(Holds(input.doc, "dkim", "temperror"))
      /\ result[i].spfPass = Cardinality(Holds(input.doc, "spf", "pass"))
      /\ result[i].spfFail = Cardinality(Holds(input.doc, "spf", "fail"))
      /\ result[i].spfTemperror = Cardinality(Holds(input.doc, "spf", "temperror"))

\* a single upper-case dkim entry in the first record, two-element lists
\* and an uncounted result in the second
C13_SingleAndArrayReached ==
  /\ Parsed /\ result[1].kind = "report"
  /\ Len(input.doc.records) = 2
  /\ input.doc.records[1].dkim = <<"PASS">>
  /\ input.doc.records[1].spf = <<"permerror">>
  /\ Len(input.doc.records[2].dkim) = 2
  /\ result[1].dkimPass = 2 /\ result[1].dkimTemperror = 1
  /\ result[1].spfFail = 1 /\ result[1].spfTemperror = 1 /\ result[1].spfPass = 0

\* the text of <begin> or <end> that the parser reads, Absent when the
\* document has none where the parser looks
DateText(g, which) ==
  IF g.layout = "text" \/ ~g.meta.present \/ ~g.meta.range THEN Absent
  ELSE IF which = "begin" THEN g.meta.begin ELSE g.meta.end

\* the integer a date text stands for, 0 when it stands for none
IntegerOf(text) ==
  CASE text = "1000" -> 1000
    [] text = "2000" -> 2000
    [] text = "12abc" -> 12
    [] OTHER -> 0

\* C14: beginDate and endDate of every report are integers: the integer
\* parse of the begin / end text when it is parseable, 0 when the text is
\* missing or unparseable, never NaN.
C14_DatesAreIntegers ==
  \A i \in 1..Len(result) :
    result[i].kind = "report" =>
      /\ result[i].beginDate = JsNum(IntegerOf(DateText(input.doc, "begin")))
      /\ result[i].endDate = JsNum(IntegerOf(DateText(input.doc, "end")))

\* C15: absence inside an accepted document is no error: without
\* policy_published.p policyP is "none", without report_metadata, report_id,
\* org_name or domain the string field is "", and without records the six
\* counters are 0.
C15_AbsentFieldsDefault ==
  \A i \in 1..Len(result) :
    LET g == input.doc
        r == result[i]
    IN /\ (WrapperIsObject(g) \/ TopLevelHeader(g)) => r.kind = "report"
       /\ r.kind = "report" =>
            /\ (~g.policy.present \/ g.policy.p = Absent) => r.policyP = JsStr("none")
            /\ (~g.policy.present \/ g.policy.domain = Absent) => r.domain = JsStr("")
            /\ (~g.meta.present \/ ~g.meta.ids) =>
                   r.reportId = JsStr("") /\ r.orgName = JsStr("")
            /\ g.records = <<>> =>
                   /\ r.dkimPass = 0 /\ r.dkimFail = 0 /\ r.dkimTemperror = 0
                   /\ r.spfPass = 0 /\ r.spfFail = 0 /\ r.spfTemperror = 0

\* a report from a wrapper with a policy_published that has a domain and no
\* p, no report_metadata and no records
C15_DefaultsReached ==
  /\ Parsed /\ result[1].kind = "report"
  /\ input.doc.layout = "wrapped"
  /\ ~input.doc.meta.present
  /\ input.doc.policy.present /\ input.doc.policy.p = Absent
  /\ input.doc.policy.domain # Absent
  /\ input.doc.records = <<>>
  /\ result[1].policyP = JsStr("none") /\ result[1].reportId = JsStr("")
  /\ result[1].domain = JsStr("example.com")

WellTyped(g) ==
  g.top = "object" /\ g.org = "string" /\ g.rid = "string" /\ g.range = "object"

\* C17: parseTLSReport never raises; it returns null for malformed JSON, for
\* a top-level value that is no object, and for an object whose
\* organization-name or report-id is missing or no string or whose
\* date-range is missing or no object; it returns a report only when all
\* three are present and well-typed.
C17_NullUnlessWellTyped ==
  \A i \in 1..Len(result) :
    /\ result[i].kind = "returned"
    /\ (result[i].value # JsNull) <=> WellTyped(input.doc)

DateRangeValue ==
  JsObj(("start-datetime" :> JsStr("2024-01-01T00:00:00Z")) @@
        ("end-datetime" :> JsStr("2024-01-01T23:59:59Z")))

PolicyValue ==
  JsObj(("policy-type" :> JsStr("sts")) @@
        ("policy-domain" :> JsStr("example.com")) @@
        ("summary" :> JsObj(("total-successful-session-count" :> JsNum(100)) @@
                            ("total-failure-session-count" :> JsNum(2)))))

PoliciesValue(form) ==
  CASE form = "empty" -> JsArr(<<>>)
    [] form = "policy" -> JsArr(<<PolicyValue>>)
    [] form = "junk" -> JsArr(<<JsNum(7), JsNull, JsObj(<<>>)>>)
    [] form = "string" -> JsStr("none")

\* the object a well-typed text denotes
WrittenReport(g) ==
  LET required == ("organization-name" :> JsStr("google.com")) @@
                  ("report-id" :> JsStr("tls-abc123")) @@
                  ("date-range" :> DateRangeValue) @@
                  ("contact-info" :> JsStr("mailto:tls@google.com"))
  IN JsObj(IF g.policies = Absent THEN required
           ELSE required @@ ("policies" :> PoliciesValue(g.policies)))

\* C18: for a text with the three required fields well-typed the parse
\* returns the object the text denotes, unchanged: without policies the
\* report has no policies, and a policies value comes back as written,
\* whatever its entries are.
C18_ReturnsParsedUnchanged ==
  \A i \in 1..Len(result) :
    WellTyped(input.doc) =>
      /\ result[i].value = WrittenReport(input.doc)
      /\ input.doc.policies = Absent => ~HasKey(result[i].value, "policies")

\* a report whose policies holds entries that are no policies
C18_JunkPoliciesReached ==
  /\ Parsed /\ WellTyped(input.doc)
  /\ input.doc.policies = "junk"
  /\ Get(result[1].value, "policies") = JsArr(<<JsNum(7), JsNull, JsObj(<<>>)>>)

\* ------------------------------------------------------------------------
\* Properties of the worker
\* ------------------------------------------------------------------------
\* one hour after processing
HourMs == DelaySeconds * 1000

\* C19: after the email handler has parsed and stored a DMARC attachment,
\* with REPLY_QUEUE configured and a Message-ID present, the ReplyQueue
\* holds an acknowledgment job for that reportId, due one hour after the
\* processing.
C19_AckJobSubmitted ==
  (/\ last.op = "email"
   /\ input.env.REPLY_QUEUE # "undefined"
   /\ result.email.msgId # Null)
  => \A i \in 1..Len(result.email.stored) :
       result.email.stored[i].type = "dmarc" =>
         LET key == JobKey([reportId |-> result.email.stored[i].reportId])
         IN /\ key \in DOMAIN storage
            /\ storage[key].msg.sendAt = now + HourMs

\* C20: without the REPLY_QUEUE binding queueReply enqueues nothing and
\* raises no error; without the EMAIL binding sendReply sends nothing and
\* raises no error, so the handler deletes every due job as if sent, with
\* no retry and no log.
C20_UnboundIsSilent ==
  [][/\ (last'.op = "email" /\ input.env.REPLY_QUEUE = "undefined") =>
          /\ result'.email.queued = <<>>
          /\ \A i \in 1..Len(result'.email.queueReply) :
               result'.email.queueReply[i] = "returned"
          /\ Len(result'.email.queueReply) =
               Cardinality({i \in 1..Len(result'.email.stored) :
                              result'.email.stored[i].type = "dmarc"})
          /\ storage' = storage /\ alarm' = alarm
     /\ (HandlerRan /\ input.env.EMAIL = "undefined") =>
          /\ result'.mailed = <<>>
          /\ status' = "ok" /\ failed' = {} /\ errlog' = {}
          /\ \A k \in DueKeys(storage, now) : k \notin DOMAIN storage'
          /\ \A k \in DOMAIN storage \ DueKeys(storage, now) :
               k \in DOMAIN storage' /\ storage'[k] = storage[k]
    ]_vars

\* with neither binding a due job was taken by sendReply, no mail went
\* out, and the job is gone
C20_DueJobDeletedUnsentReached ==
  /\ last.op \in {"fire", "direct"}
  /\ input.env.EMAIL = "undefined" /\ input.env.REPLY_QUEUE = "undefined"
  /\ outbox # <<>>
  /\ result.mailed = <<>>
  /\ storage = <<>>

\* C21: the email handler reaches a parser, a report store or queueReply
\* only for an email that passed the rate limit, comes from a trusted
\* reporter and whose Authentication-Results shows dmarc=pass.
C21_OnlyVerifiedMailProcessed ==
  (/\ last.op = "email"
   /\ ~(/\ result.email.gate.rateOk
        /\ result.email.gate.trusted
        /\ result.email.gate.dmarc = "pass"))
  => /\ result.email.parsed = 0
     /\ result.email.stored = <<>>
     /\ result.email.queueReply = <<>>
     /\ result.email.queued = <<>>

\* ------------------------------------------------------------------------
\* Properties of the storage functions
\* ------------------------------------------------------------------------
\* the entries of the report given to the last storeTLSReport
GivenPolicies == IF last.policies[1] = Absent THEN <<>> ELSE last.policies[2]

IsInserted(policy) == policy.insert = "ok"

DomainsOf(ps) == [i \in 1..Len(ps) |-> ps[i].domain]

\* C22: storeTLSReport attempts one insert per entry of report.policies, in
\* order; without policies it inserts nothing; a failed insert is logged
\* and the inserts after it still happen; the call always resolves.
C22_OneInsertPerPolicy ==
  last.op = "storeTLSReport" =>
    /\ result.obs.outcome = "resolved"
    /\ result.obs.attempts = DomainsOf(GivenPolicies)
    /\ result.obs.rows = DomainsOf(SelectSeq(GivenPolicies, IsInserted))
    /\ Len(result.obs.logged) = Len(GivenPolicies) - Len(result.obs.rows)

\* the first insert failed and the second entry's row was written
C22_InsertAfterFailureReached ==
  /\ last.op = "storeTLSReport"
  /\ Len(GivenPolicies) = 2
  /\ GivenPolicies[1].insert = "rejects" /\ GivenPolicies[1].domain = "a.com"
  /\ GivenPolicies[2].insert = "ok" /\ GivenPolicies[2].domain = "b.com"
  /\ result.obs.rows = <<"b.com">>
  /\ result.obs.attempts = <<"a.com", "b.com">>

Kept(old, new) == \A id \in DOMAIN old : id \in DOMAIN new /\ new[id] = old[id]

\* C27: storeReport attempts the D1 insert and, with HYPERDRIVE, the
\* Postgres insert; a failure of one neither fails the call nor keeps the
\* other from writing its row; a report whose report_id is already stored
\* leaves the stored row as it is.
C27_BestEffortSinks ==
  [][last'.op = "storeReport" =>
       LET o == result'.obs
           id == o.report.reportId
           hyper == input.env.HYPERDRIVE # "undefined"
       IN /\ o.outcome = "resolved"
          /\ "d1" \in o.tried
          /\ hyper <=> "postgres" \in o.tried
          /\ Kept(result.d1, result'.d1) /\ Kept(result.pg, result'.pg)
          /\ IF o.d1ok
             THEN DOMAIN result'.d1 = DOMAIN result.d1 \cup {id}
                  /\ (id \notin DOMAIN result.d1 => result'.d1[id] = o.report)
             ELSE result'.d1 = result.d1
          /\ IF hyper /\ o.pgFault = "none"
             THEN DOMAIN result'.pg = DOMAIN result.pg \cup {id}
                  /\ (id \notin DOMAIN result.pg => result'.pg[id] = o.report)
             ELSE result'.pg = result.pg
    ]_vars

\* the D1 insert failed and the report's row is in Postgres only
C27_PostgresDespiteD1FailureReached ==
  /\ last.op = "storeReport"
  /\ ~result.obs.d1ok /\ result.obs.pgFault = "none"
  /\ input.env.HYPERDRIVE = "configured"
  /\ result.obs.report.reportId \notin DOMAIN result.d1
  /\ result.obs.report.reportId \in DOMAIN result.pg
  /\ result.pg[result.obs.report.reportId] = result.obs.report
  /\ result.obs.logged = {"D1 insert failed:"}

\* C26: policyP of every report is none, quarantine or reject, whatever
\* the document's policy_published.p holds.
C26_PolicyPIsDisposition ==
  \A i \in 1..Len(result) :
    result[i].kind = "report" =>
      result[i].policyP \in {JsStr("none"), JsStr("quarantine"), JsStr("reject")}

\* ------------------------------------------------------------------------
\* C28
\* ------------------------------------------------------------------------
\* C28: with serialized operations and the runtime clearing the alarm when
\* it fires, between operations every stored job has the alarm set at or
\* before its sendAt, and an enqueue that overwrites a job by one with a
\* later sendAt leaves the alarm set, at or before the new sendAt.
C28_EveryJobHasWakeUp ==
  /\ [](\A k \in Stored : alarm # Null /\ alarm <= storage[k].msg.sendAt)
  /\ [][(EnqueueRan /\ last'.replaced
           /\ last'.msg.sendAt > storage[JobKey(last'.msg)].msg.sendAt) =>
          (alarm' # Null /\ alarm' <= last'.msg.sendAt /\ alarm' = alarm)]_vars

\* C28 witness: after the runtime has fired the alarm at least once, a
\* stored job was overwritten by an enqueue whose sendAt is later than the
\* alarm while another job is stored, and the alarm is at or before both.
C28_OverwrittenLaterReached ==
  /\ last.op = "enqueue" /\ last.replaced
  /\ Cardinality(Stored) = 2
  /\ enqMin = Void
  /\ storage[JobKey(last.msg)].msg.sendAt > alarm
  /\ \A k \in Stored : alarm <= storage[k].msg.sendAt

\* ------------------------------------------------------------------------
\* C29
\* ------------------------------------------------------------------------
\* C29: a handler run never calls sendReply for a reportId whose sendReply
\* has already resolved since the latest enqueue of that reportId, whatever
\* storage call rejected in between.
C29_SentAtMostOnce ==
  [][HandlerRan =>
       \A i \in 1..Len(outbox') : outbox'[i].reportId \notin result.delivered]_vars

\* ------------------------------------------------------------------------
\* C30
\* ------------------------------------------------------------------------
\* the latest operation was an enqueue for the reportId of key k
Superseded(k) == last.op = "enqueue" /\ JobKey(last.msg) = k

\* C30: with serialized operations, advancing time and the alarm handler
\* run whenever the alarm is due, every stored job eventually leaves the
\* queue unless an enqueue for its reportId supersedes it, and whenever no
\* job is stored the alarm is unset.
C30_EveryJobLeaves ==
  /\ \A k \in {JobKey(msg) : msg \in LiveMsgs} :
       (k \in Stored /\ ~Superseded(k)) ~> (k \notin Stored \/ Superseded(k))
  /\ [](Stored = {} => alarm = Null)

\* C30 witness: the last stored job has left the queue by the drop that
\* follows its 5th failed send, and the alarm is unset.
C30_LastJobDroppedReached ==
  /\ last.op = "fire"
  /\ Stored = {} /\ alarm = Null
  /\ \E r \in errlog : sends[r] = MAX_ATTEMPTS /\ r \in failed
  /\ now = LiveEnd * TickMs

\* ------------------------------------------------------------------------
\* C23
\* ------------------------------------------------------------------------
\* the step just taken was a storage call of enqueue
EnqueueStep == last'.op \in {"enqueue.put", "enqueue.getAlarm", "enqueue.setAlarm"}

\* the step just taken ran alarm() from one await to the next
HandlerStep == last'.op \in {"alarm.start", "send.resolved", "send.rejected"}

\* C23: no storage call of enqueue occurs between the alarm handler's
\* listing of the jobs and its final setAlarm, the await of sendReply
\* included; no step of the handler and no put of another enqueue occurs
\* between the put and the setAlarm of an enqueue.
C23_CallsNeverInterleave ==
  [][/\ EnqueueStep => frames.alarm.pc = "idle"
     /\ HandlerStep => frames.enqueue.pc = "idle"
     /\ last'.op = "enqueue.put" => frames.enqueue.pc = "idle"]_vars

\* ------------------------------------------------------------------------
\* C24
\* ------------------------------------------------------------------------
\* the step just taken ended a run of alarm() that had awaited a sendReply
HandlerEnded == frames.alarm.pc = "sending" /\ frames'.alarm.pc = "idle"

\* C24: when a run of alarm() ends, every job enqueued since the run listed
\* the jobs (the latest one per reportId) is stored as it was enqueued, with
\* attempts 0, and the alarm is set, no later than the job's sendAt.
C24_RacingEnqueueKept ==
  [][HandlerEnded =>
       \A k \in DOMAIN frames.alarm.raced :
         /\ k \in DOMAIN storage'
         /\ storage'[k] = [msg |-> frames.alarm.raced[k], attempts |-> 0]
         /\ alarm' # Null
         /\ alarm' <= frames.alarm.raced[k].sendAt]_vars

\* ------------------------------------------------------------------------
\* C25
\* ------------------------------------------------------------------------
\* C25: every run of alarm() that awaits a sendReply eventually ends, even
\* when that sendReply never settles.
C25_HandlerFinishes ==
  (frames.alarm.pc = "sending") ~> (frames.alarm.pc = "idle")

====
